---- MODULE Spec2Model ----
(***************************************************************************)
(* CRUMBS master: the fixed-size message (CRUMBSMessage.h) and the serial  *)
(* command loop of the master sketch (handleSerialInput, parseSerialInput).*)
(*                                                                         *)
(* Text is a sequence of one-character strings, so that the Arduino String *)
(* operations (trim, startsWith, substring, toInt, toFloat) and strtol are *)
(* computed character by character as the libraries compute them.         *)
(* A float is the triple of its IEEE-754 binary32 fields [s, e, m]         *)
(* (a 32-bit pattern with the sign bit set does not fit TLC's integers).   *)
(***************************************************************************)
EXTENDS Integers, Sequences, FiniteSets, TLC

VARIABLES
    pc,             \* position of the sketch: "idle" in loop(), or inside handleSerialInput
    input,          \* String input: the line read from Serial (after trim once handled)
    typed,          \* what the operator meant when typing the line (kind, address value)
    targetAddress,  \* uint8_t targetAddress of the handler
    message,        \* CRUMBSMessage message of the handler
    parseSuccess,   \* bool parseSuccess
    wire,           \* bytes the transport holds for Wire.available()/Wire.read()
    responseBuffer, \* uint8_t responseBuffer[CRUMBS_MESSAGE_SIZE]; also encode's output buffer
    index,          \* int index of the collection loop
    response,       \* CRUMBSMessage response
    bus,            \* bus transactions performed by the current handler call
    writeOk,        \* outcome of the transport write of the last sendMessage
    report,         \* what the handler printed as the outcome of the line
    calls           \* calls made by the current handler call: parse, decode, read, decodeLen

vars == <<pc, input, typed, targetAddress, message, parseSuccess, wire,
          responseBuffer, index, response, bus, writeOk, report, calls>>

----------------------------------------------------------------------------
(* CRUMBSMessage.h *)

\* #define CRUMBS_MESSAGE_SIZE as sizeof(struct) on a 32-bit target, padding included
CRUMBS_MESSAGE_SIZE_sizeof == 4 + 24 + 4

CRUMBS_MESSAGE_SIZE == 28

\* number of float slots of data[]
DATA_SLOTS == 6

\* uint8_t holds 0 .. UINT8_MOD - 1
UINT8_MOD == 256

U8(x) == x % UINT8_MOD

Float(s, e, m) == [s |-> s, e |-> e, m |-> m]

ZeroFloat == Float(0, 0, 0)

CRUMBSMessage(sl, ty, cmd, d, err) ==
    [sliceID |-> sl, typeID |-> ty, commandType |-> cmd, data |-> d, errorFlags |-> err]

----------------------------------------------------------------------------
(* Characters and the C library's / Arduino String's text operations *)

DecDigits == <<"0", "1", "2", "3", "4", "5", "6", "7", "8", "9">>
HexLower == <<"a", "b", "c", "d", "e", "f">>
HexUpper == <<"A", "B", "C", "D", "E", "F">>

IsSpace(c) == c \in {" ", "\t"}
IsDigit(c) == \E d \in 1..10 : DecDigits[d] = c
DigitVal(c) == (CHOOSE d \in 1..10 : DecDigits[d] = c) - 1
IsHexDigit(c) ==
    \/ IsDigit(c)
    \/ \E d \in 1..6 : HexLower[d] = c \/ HexUpper[d] = c
HexVal(c) ==
    IF IsDigit(c) THEN DigitVal(c)
    ELSE 9 + (CHOOSE d \in 1..6 : HexLower[d] = c \/ HexUpper[d] = c)

\* String::trim(): drop leading and trailing isspace characters
RECURSIVE TrimLeft(_)
TrimLeft(s) ==
    IF s # <<>> /\ IsSpace(Head(s)) THEN TrimLeft(Tail(s)) ELSE s

RECURSIVE TrimRight(_)
TrimRight(s) ==
    IF s # <<>> /\ IsSpace(s[Len(s)]) THEN TrimRight(SubSeq(s, 1, Len(s) - 1)) ELSE s

trim(s) == TrimRight(TrimLeft(s))

\* String::startsWith(prefix)
startsWith(s, p) == Len(s) >= Len(p) /\ SubSeq(s, 1, Len(p)) = p

\* String::substring(left, right): characters left .. right-1 (0-based), clamped
substring(s, left, right) ==
    LET lo == IF left > right THEN right ELSE left
        hi == IF left > right THEN left ELSE right
        to == IF hi > Len(s) THEN Len(s) ELSE hi
    IN  IF lo >= Len(s) THEN <<>> ELSE SubSeq(s, lo + 1, to)

\* the leading run of decimal digits of s, as a number
RECURSIVE DigitRun(_, _)
DigitRun(s, acc) ==
    IF s # <<>> /\ IsDigit(Head(s)) THEN DigitRun(Tail(s), acc * 10 + DigitVal(Head(s)))
    ELSE acc

RECURSIVE HexRun(_, _)
HexRun(s, acc) ==
    IF s # <<>> /\ IsHexDigit(Head(s)) THEN HexRun(Tail(s), acc * 16 + HexVal(Head(s)))
    ELSE acc

\* an optional sign: <<negative, rest>>
Signed(s) ==
    IF s # <<>> /\ Head(s) = "-" THEN <<TRUE, Tail(s)>>
    ELSE IF s # <<>> /\ Head(s) = "+" THEN <<FALSE, Tail(s)>>
    ELSE <<FALSE, s>>

\* String::toInt() = atol(): white space, an optional sign, decimal digits;
\* anything else ends the number, and no digits give 0
toInt(s) ==
    LET sg == Signed(TrimLeft(s))
        v  == DigitRun(sg[2], 0)
    IN  IF sg[1] THEN 0 - v ELSE v

\* strtol(s, NULL, 16): white space, an optional sign, an optional 0x/0X, hex digits
strtol16(s) ==
    LET sg   == Signed(TrimLeft(s))
        r    == sg[2]
        body == IF Len(r) >= 2 /\ r[1] = "0" /\ r[2] \in {"x", "X"}
                THEN SubSeq(r, 3, Len(r)) ELSE r
        v    == HexRun(body, 0)
    IN  IF sg[1] THEN 0 - v ELSE v

\* the number of leading digits of s
RECURSIVE DigitCount(_)
DigitCount(s) ==
    IF s # <<>> /\ IsDigit(Head(s)) THEN 1 + DigitCount(Tail(s)) ELSE 0

\* the largest e >= 0 with d * 2^e <= n (n >= d)
RECURSIVE ExpUp(_, _, _)
ExpUp(n, d, e) == IF d * 2^(e + 1) <= n THEN ExpUp(n, d, e + 1) ELSE e

\* the smallest k >= 0 with n * 2^k >= d (n > 0)
RECURSIVE ExpDown(_, _, _)
ExpDown(n, d, k) == IF n * 2^k >= d THEN k ELSE ExpDown(n, d, k + 1)

\* the binary32 nearest to n/d (round to nearest, ties to even), sign s
Binary32(s, n, d) ==
    IF n = 0 THEN Float(s, 0, 0)
    ELSE
        LET e   == IF n >= d THEN ExpUp(n, d, 0) ELSE 0 - ExpDown(n, d, 0)
            num == n * 2^(23 - e)
            q0  == num \div d
            r   == num % d
            q   == IF 2 * r > d \/ (2 * r = d /\ q0 % 2 = 1) THEN q0 + 1 ELSE q0
        IN  IF q = 2^24 THEN Float(s, e + 1 + 127, 0)
            ELSE Float(s, e + 127, q - 2^23)

\* String::toFloat() = atof(): white space, an optional sign, digits, an optional
\* '.' and digits; no digits give 0.0. (The texts of the model carry no exponent
\* part and at most two fraction digits.)
toFloat(s) ==
    LET sg    == Signed(TrimLeft(s))
        r     == sg[2]
        ni    == DigitCount(r)
        ip    == DigitRun(r, 0)
        after == SubSeq(r, ni + 1, Len(r))
        frac  == IF after # <<>> /\ Head(after) = "." THEN Tail(after) ELSE <<>>
        nf    == DigitCount(frac)
        fp    == DigitRun(frac, 0)
    IN  IF ni + nf = 0 THEN ZeroFloat
        ELSE Binary32(IF sg[1] THEN 1 ELSE 0, ip * 10^nf + fp, 10^nf)

----------------------------------------------------------------------------
(* parseSerialInput *)

\* fields required of a line
MIN_FIELDS == 4

\* for (i = 0; i < input.length(); i++): the last field is not captured
LoopEnd_exclusive(in) == Len(in) - 1

\* for (int i = 0; i <= input.length(); i++): the last value of i
LoopEnd(in) == Len(in)

\* "Initialize message fields to default values": typeID, commandType, data, errorFlags
ResetFields(m) ==
    CRUMBSMessage(m.sliceID, 0, 0, [k \in 1..DATA_SLOTS |-> ZeroFloat], 0)

\* switch (fieldCount): store the field's value
StoreField(st, value) ==
    LET fc == st.fieldCount
        m  == st.message
    IN  CASE fc = 0 -> [st EXCEPT !.targetAddress = U8(toInt(value))]
          [] fc = 1 -> [st EXCEPT !.message.typeID = U8(toInt(value))]
          [] fc = 2 -> [st EXCEPT !.message.commandType = U8(toInt(value))]
          [] fc \in 3..8 -> [st EXCEPT !.message.data[fc - 2] = toFloat(value)]
          [] fc = 9 -> [st EXCEPT !.message.errorFlags = U8(toInt(value))]
          [] OTHER -> st

\* the for loop from i on; st = [fieldCount, lastComma, targetAddress, message]
RECURSIVE ParseLoop(_, _, _)
ParseLoop(in, i, st) ==
    IF i > LoopEnd(in) THEN st
    ELSE IF i = Len(in) \/ in[i + 1] = ","
    THEN LET value  == substring(in, st.lastComma, i)
             stored == StoreField(st, value)
         IN  ParseLoop(in, i + 1,
                       [stored EXCEPT !.lastComma = i + 1,
                                      !.fieldCount = st.fieldCount + 1])
    ELSE ParseLoop(in, i + 1, st)

\* bool parseSerialInput(input, targetAddress&, message&):
\* [ok, targetAddress, message, fieldCount]
parseSerialInput(in, addr0, m0) ==
    LET st == ParseLoop(in, 0, [fieldCount |-> 0, lastComma |-> 0,
                                targetAddress |-> addr0, message |-> ResetFields(m0)])
    IN  [ok |-> ~(st.fieldCount < MIN_FIELDS),
         targetAddress |-> st.targetAddress,
         message |-> st.message,
         fieldCount |-> st.fieldCount]

----------------------------------------------------------------------------
(* Message codec: encodeMessage / decodeMessage / sendMessage of the CRUMBS class *)

\* one float as 4 bytes, least significant first
FloatBytes(f) ==
    << f.m % 256,
       (f.m \div 256) % 256,
       (f.m \div 65536) + (f.e % 2) * 128,
       f.s * 128 + (f.e \div 2) >>

\* the float held in bytes at..at+3 of buf (1-based)
BytesFloat(buf, at) ==
    Float(buf[at + 3] \div 128,
          (buf[at + 3] % 128) * 2 + (buf[at + 2] \div 128),
          (buf[at + 2] % 128) * 65536 + buf[at + 1] * 256 + buf[at])

RECURSIVE DataBytes(_, _)
DataBytes(d, k) ==
    IF k > DATA_SLOTS THEN <<>> ELSE FloatBytes(d[k]) \o DataBytes(d, k + 1)

\* Encode: sliceID, typeID, commandType, the 6 floats, errorFlags, no padding
encodeMessage(m) ==
    <<m.sliceID, m.typeID, m.commandType>> \o DataBytes(m.data, 1) \o <<m.errorFlags>>

\* Decode: fails when length < CRUMBS_MESSAGE_SIZE and leaves the message alone;
\* otherwise reads the fields in Encode's order
decodeMessage(buf, length, m0) ==
    IF length < CRUMBS_MESSAGE_SIZE THEN [ok |-> FALSE, message |-> m0]
    ELSE [ok |-> TRUE,
          message |-> CRUMBSMessage(buf[1], buf[2], buf[3],
                                    [k \in 1..DATA_SLOTS |-> BytesFloat(buf, 4 * k)],
                                    buf[4 + 4 * DATA_SLOTS])]

\* Send: the bus write transaction of the encoded message to the address
sendMessage(m, addr) ==
    [op |-> "write", addr |-> addr, bytes |-> encodeMessage(m)]

----------------------------------------------------------------------------
(* Values of locals that are declared without an initializer *)

\* bytes an uninitialized uint8_t may hold (a sample)
GarbageBytes == {0, 165}

GarbageFloat(g) == Float(g % 2, g, g)

\* CRUMBSMessage message; / CRUMBSMessage response;
GarbageMessage(g) ==
    CRUMBSMessage(g, g, g, [k \in 1..DATA_SLOTS |-> GarbageFloat(g)], g)

\* uint8_t responseBuffer[CRUMBS_MESSAGE_SIZE];
GarbageBuffer(g) == [k \in 1..CRUMBS_MESSAGE_SIZE |-> g]

\* a local that the path taken does not declare
NoMessage == GarbageMessage(0)

NoCalls == [parse |-> 0, decode |-> 0, read |-> 0, decodeLen |-> 0]

----------------------------------------------------------------------------
(* Operator input *)

\* the literal "request="
RequestPrefix == <<"r", "e", "q", "u", "e", "s", "t", "=">>

\* fields joined by commas
RECURSIVE Join(_)
Join(fs) ==
    IF fs = <<>> THEN <<>>
    ELSE IF Len(fs) = 1 THEN fs[1]
    ELSE fs[1] \o <<",">> \o Join(Tail(fs))

\* most fields a typed line carries
MaxFields == 12

\* texts an operator may type into one field
FieldTexts ==
    { <<>>, <<"8">>, <<"a", "b", "c">>, <<"7", "5", ".", "0">>, <<"-", "1">>,
      <<"3", "0", "0">>, <<" ", "1">>, <<"0", ".", "5">>, <<"1", "x">> }

\* lines of n fields, all holding text b but field p, which holds text s
ParseLines ==
    { Join([i \in 1..n |-> IF i = p THEN s ELSE b]) :
        n \in 1..MaxFields, p \in 1..MaxFields, b \in FieldTexts, s \in FieldTexts }

\* decimal digits of v, most significant first, no leading zeros
RECURSIVE Dec(_)
Dec(v) == IF v < 10 THEN <<DecDigits[v + 1]>> ELSE Dec(v \div 10) \o <<DecDigits[(v % 10) + 1]>>

HexDigit(d, upper) ==
    IF d < 10 THEN DecDigits[d + 1] ELSE IF upper THEN HexUpper[d - 9] ELSE HexLower[d - 9]

\* hex digits of v (0..255): two digits when padded, else no leading zero
Hex(v, upper, pad) ==
    IF v < 16 /\ ~pad THEN <<HexDigit(v, upper)>>
    ELSE <<HexDigit(v \div 16, upper), HexDigit(v % 16, upper)>>

\* the ways an operator writes address v in a request line
AddressForms ==
    [kind : {"dec"}, prefix : {<<>>}, upper : {FALSE}, pad : BOOLEAN] \cup
    [kind : {"hex"}, prefix : {<<"0", "x">>, <<"0", "X">>}, upper : BOOLEAN, pad : BOOLEAN]

AddressText(v, f) ==
    IF f.kind = "dec" THEN (IF f.pad THEN <<"0">> ELSE <<>>) \o Dec(v)
    ELSE f.prefix \o Hex(v, f.upper, f.pad)

RequestLine(v, f) == RequestPrefix \o AddressText(v, f)

Raw == [kind |-> "raw", value |-> 0]

----------------------------------------------------------------------------
(* The transport: what a peripheral makes available after Wire.requestFrom *)

\* most bytes the transport holds after a request
MaxSupply == 30

\* messages a peripheral answers with
PeripheralReplies ==
    { CRUMBSMessage(0, 1, 1, [k \in 1..DATA_SLOTS |-> Float(0, 133, 1441792)], 0),
      CRUMBSMessage(3, 255, 2, [k \in 1..DATA_SLOTS |-> Float(1, 126 + k, k)], 128) }

\* the first k bytes the peripheral puts on the bus: its encoded reply, then 0xFF
Supply(k, m) ==
    LET enc == encodeMessage(m)
    IN  [i \in 1..k |-> IF i <= Len(enc) THEN enc[i] ELSE 255]

Supplies == { Supply(k, m) : k \in 0..MaxSupply, m \in PeripheralReplies }

----------------------------------------------------------------------------
(* handleSerialInput *)

\* input == "request=": the whole line compared instead of its start
IsRequestLine_exact(in) == in = RequestPrefix

\* input.startsWith("request=")
IsRequestLine(in) == startsWith(in, RequestPrefix)

\* only the lower-case 0x is taken as hexadecimal
RequestAddress_lower(addressString) ==
    IF startsWith(addressString, <<"0", "x">>)
    THEN U8(strtol16(addressString))
    ELSE U8(toInt(addressString))

\* targetAddress of a request line: strtol base 16 after 0x/0X, else toInt
RequestAddress(addressString) ==
    IF startsWith(addressString, <<"0", "x">>) \/ startsWith(addressString, <<"0", "X">>)
    THEN U8(strtol16(addressString))
    ELSE U8(toInt(addressString))

\* numBytes = sizeof(CRUMBSMessage)
NumBytes_sizeof == CRUMBS_MESSAGE_SIZE_sizeof

\* uint8_t numBytes = CRUMBS_MESSAGE_SIZE
NumBytes == CRUMBS_MESSAGE_SIZE

\* while (Wire.available()): the buffer's size is not checked
LoopGuard_unbounded(avail, i) == avail > 0

\* while (Wire.available() && index < CRUMBS_MESSAGE_SIZE)
LoopGuard(avail, i) == avail > 0 /\ i < CRUMBS_MESSAGE_SIZE

\* decodeMessage(responseBuffer, CRUMBS_MESSAGE_SIZE, response)
DecodeLength_full(i) == CRUMBS_MESSAGE_SIZE

\* decodeMessage(responseBuffer, index, response): the length handed to decode
DecodeLength(i) == i

\* the message is sent whatever parseSerialInput returned
ShouldSend_always(ok) == TRUE

\* if (parseSuccess)
ShouldSend(ok) == ok

\* the request branch up to the delay: address, Wire.requestFrom, the locals
HandleRequest(line, ty, g, supply) ==
    /\ pc = "idle"
    /\ LET in            == trim(line)
           addressString == trim(substring(in, Len(RequestPrefix), Len(in)))
           addr          == RequestAddress(addressString)
       IN  /\ IsRequestLine(in)
           /\ input' = in
           /\ targetAddress' = addr
           /\ bus' = <<[op |-> "request", addr |-> addr, len |-> NumBytes]>>
    /\ typed' = ty
    /\ wire' = supply
    /\ index' = 0
    /\ responseBuffer' = GarbageBuffer(g)
    /\ response' = GarbageMessage(g)
    /\ pc' = "collect"
    /\ UNCHANGED <<message, parseSuccess, writeOk, report, calls>>

\* one iteration of the collection loop: responseBuffer[index++] = Wire.read()
ReadByte ==
    /\ pc = "collect"
    /\ LoopGuard(Len(wire), index)
    /\ responseBuffer' = IF index + 1 \in DOMAIN responseBuffer
                         THEN [responseBuffer EXCEPT ![index + 1] = Head(wire)]
                         ELSE responseBuffer
    /\ index' = index + 1
    /\ wire' = Tail(wire)
    /\ calls' = [calls EXCEPT !.read = @ + 1]
    /\ UNCHANGED <<pc, input, typed, targetAddress, message, parseSuccess, response,
                   bus, writeOk, report>>

\* the loop's exit: decode the collected bytes and print the outcome
Finish ==
    /\ pc = "collect"
    /\ ~LoopGuard(Len(wire), index)
    /\ LET n == DecodeLength(index)
           r == decodeMessage(responseBuffer, n, response)
       IN  /\ response' = r.message
           /\ report' = IF r.ok THEN "decoded" ELSE "decode_failed"
           /\ calls' = [calls EXCEPT !.decode = @ + 1, !.decodeLen = n]
    /\ pc' = "returned"
    /\ UNCHANGED <<input, typed, targetAddress, message, parseSuccess, wire,
                   responseBuffer, index, bus, writeOk>>

\* the comma-separated branch: parse, then send when the parse succeeded;
\* ack is the transport's answer to the write
HandleMessage(line, g, ack) ==
    /\ pc = "idle"
    /\ LET in == trim(line)
           r  == parseSerialInput(in, g, GarbageMessage(g))
       IN  /\ ~IsRequestLine(in)
           /\ input' = in
           /\ targetAddress' = r.targetAddress
           /\ message' = r.message
           /\ parseSuccess' = r.ok
           /\ IF ShouldSend(r.ok)
              THEN /\ bus' = <<sendMessage(r.message, r.targetAddress)>>
                   /\ writeOk' = ack
                   /\ report' = "sent"
              ELSE /\ bus' = <<>>
                   /\ writeOk' = "none"
                   /\ report' = "parse_failed"
    /\ typed' = Raw
    /\ calls' = [NoCalls EXCEPT !.parse = 1]
    /\ pc' = "returned"
    /\ UNCHANGED <<wire, responseBuffer, index, response>>

\* the state of the sketch between two lines: no local is alive
AtRest ==
    /\ input = <<>>
    /\ typed = Raw
    /\ targetAddress = 0
    /\ message = NoMessage
    /\ parseSuccess = FALSE
    /\ wire = <<>>
    /\ responseBuffer = GarbageBuffer(0)
    /\ index = 0
    /\ response = NoMessage
    /\ bus = <<>>
    /\ writeOk = "none"
    /\ report = "none"
    /\ calls = NoCalls

Init == pc = "idle" /\ AtRest

\* handleSerialInput returns to loop(): its locals are gone
Return ==
    /\ pc = "returned"
    /\ pc' = "idle"
    /\ input' = <<>>
    /\ typed' = Raw
    /\ targetAddress' = 0
    /\ message' = NoMessage
    /\ parseSuccess' = FALSE
    /\ wire' = <<>>
    /\ responseBuffer' = GarbageBuffer(0)
    /\ index' = 0
    /\ response' = NoMessage
    /\ bus' = <<>>
    /\ writeOk' = "none"
    /\ report' = "none"
    /\ calls' = NoCalls

\* lines typed at the master: comma-separated fields all holding the same text
MessageLines ==
    { Join([i \in 1..n |-> b]) : n \in 1..MaxFields, b \in FieldTexts } \cup
    { <<" ", "8", ",", "1", ",", "1", ",", "7", "5", ".", "0", " ">>,
      <<"R", "e", "q", "u", "e", "s", "t", "=", "8">>,
      <<"r", "e", "q", "u", "e", "s", "t", " ", "=", "8", ",", "1", ",", "1", ",", "1">> }

\* request lines: plain, hexadecimal, with commas, malformed, empty, padded
RequestLines ==
    { RequestPrefix \o t : t \in
        { <<"8">>, <<"0", "x", "0", "8">>, <<"8", ",", "1", ",", "1", ",", "7", "5">>,
          <<"z", "z">>, <<>>, <<" ", "9", " ">>, <<"3", "0", "0">>, <<"-", "1">>,
          <<"0", "X", "1", "f">>, <<"0", "x", ",", ",", ",">> } } \cup
    { <<" ">> \o RequestPrefix \o <<"1", "2", "0">> }

TransportAnswers == {"ack", "nack"}

\* every line the operator may type: the branch taken is the handler's choice
SerialLines == MessageLines \cup RequestLines

SerialRequest ==
    /\ pc = "idle"
    /\ \E line \in SerialLines, g \in GarbageBytes, supply \in Supplies :
        HandleRequest(line, Raw, g, supply)

SerialMessage ==
    /\ pc = "idle"
    /\ \E line \in SerialLines, g \in GarbageBytes, ack \in TransportAnswers :
        HandleMessage(line, g, ack)

Next == SerialRequest \/ SerialMessage \/ ReadByte \/ Finish \/ Return

Spec == Init /\ [][Next]_vars

\* once a line is being handled the sketch runs on: nothing preempts loop()
FairSpec == Spec /\ WF_vars(ReadByte) /\ WF_vars(Finish) /\ WF_vars(Return)

----------------------------------------------------------------------------
(* Request lines for every address, in every way of writing it *)

\* what the transport makes available in the address runs: nothing, or two bytes
AddressSupplies ==
    { Supply(k, m) : k \in {0, 2}, m \in PeripheralReplies }

AddressRequest ==
    /\ pc = "idle"
    /\ \E v \in 0..(UINT8_MOD - 1), f \in AddressForms, supply \in AddressSupplies :
        HandleRequest(RequestLine(v, f), [kind |-> f.kind, value |-> v], 0, supply)

NextAddr == AddressRequest \/ ReadByte \/ Finish \/ Return

SpecAddr == Init /\ [][NextAddr]_vars

----------------------------------------------------------------------------
(* parseSerialInput on its own: any line, any prior contents of the message *)

InitParse ==
    /\ pc = "parse"
    /\ input \in ParseLines
    /\ \E g \in GarbageBytes : targetAddress = g /\ message = GarbageMessage(g)
    /\ typed = Raw
    /\ parseSuccess = FALSE
    /\ wire = <<>>
    /\ responseBuffer = GarbageBuffer(0)
    /\ index = 0
    /\ response = NoMessage
    /\ bus = <<>>
    /\ writeOk = "none"
    /\ report = "none"
    /\ calls = NoCalls

ParseStep ==
    /\ pc = "parse"
    /\ LET r == parseSerialInput(input, targetAddress, message)
       IN  /\ targetAddress' = r.targetAddress
           /\ message' = r.message
           /\ parseSuccess' = r.ok
    /\ calls' = [calls EXCEPT !.parse = @ + 1]
    /\ pc' = "parsed"
    /\ UNCHANGED <<input, typed, wire, responseBuffer, index, response, bus, writeOk, report>>

NextParse == ParseStep

SpecParse == InitParse /\ [][NextParse]_vars

----------------------------------------------------------------------------
(* The codec on its own: encode a message, decode the bytes *)

ByteSamples == {0, 129, 255}

\* 0.0, 75.0, -0.0, a NaN, the smallest subnormal, the largest finite, pi
FloatSamples ==
    { ZeroFloat, Float(0, 133, 1441792), Float(1, 0, 0), Float(1, 255, 8388607),
      Float(0, 0, 1), Float(0, 254, 8388607), Float(0, 128, 4788187) }

Messages ==
    { CRUMBSMessage(sl, ty, cmd, [k \in 1..DATA_SLOTS |-> IF k = p THEN s ELSE b], err) :
        sl \in ByteSamples, ty \in ByteSamples, cmd \in ByteSamples, err \in ByteSamples,
        p \in 1..DATA_SLOTS, b \in FloatSamples, s \in FloatSamples }

InitCodec ==
    /\ pc = "encode"
    /\ message \in Messages
    /\ \E g \in GarbageBytes : response = GarbageMessage(g)
    /\ input = <<>>
    /\ typed = Raw
    /\ targetAddress = 0
    /\ parseSuccess = FALSE
    /\ wire = <<>>
    /\ responseBuffer = GarbageBuffer(0)
    /\ index = 0
    /\ bus = <<>>
    /\ writeOk = "none"
    /\ report = "none"
    /\ calls = NoCalls

EncodeStep ==
    /\ pc = "encode"
    /\ responseBuffer' = encodeMessage(message)
    /\ pc' = "decode"
    /\ UNCHANGED <<input, typed, targetAddress, message, parseSuccess, wire, index,
                   response, bus, writeOk, report, calls>>

\* Decode(buffer, 28)
DecodeStep ==
    /\ pc = "decode"
    /\ LET r == decodeMessage(responseBuffer, 28, response)
       IN  /\ response' = r.message
           /\ report' = IF r.ok THEN "decoded" ELSE "decode_failed"
    /\ calls' = [calls EXCEPT !.decode = @ + 1, !.decodeLen = 28]
    /\ pc' = "done"
    /\ UNCHANGED <<input, typed, targetAddress, message, parseSuccess, wire,
                   responseBuffer, index, bus, writeOk>>

NextCodec == EncodeStep \/ DecodeStep

SpecCodec == InitCodec /\ [][NextCodec]_vars

----------------------------------------------------------------------------
(* Properties *)

CommaCount(s) == Cardinality({i \in 1..Len(s) : s[i] = ","})

\* the comma-delimited fields of a line
FieldsIn(s) == CommaCount(s) + 1

RequestPath == startsWith(input, RequestPrefix) /\ pc \in {"collect", "returned"}

\* bytes the transport delivered for the request: those read and those left unread
Delivered == calls.read + Len(wire)

\* C1: parseSerialInput fails exactly on the lines with fewer than 3 commas
\* (fewer than 4 fields, the empty line included); every line with 4 or more
\* fields succeeds, whatever the text of its fields.
C1_ParseFailsIffFewerThanFourFields ==
    pc = "parsed" => (parseSuccess <=> CommaCount(input) >= 3)

\* four non-numeric fields: the parse succeeded and stored zeros
C1_Witness ==
    /\ pc = "parsed"
    /\ input = Join([i \in 1..4 |-> <<"a", "b", "c">>])
    /\ parseSuccess
    /\ targetAddress = 0
    /\ message.data[1] = ZeroFloat

\* C2: after parseSerialInput every Message field the line did not supply is
\* zero, sliceID (which no field of a line supplies) included, whatever the
\* Message held before the call.
C2_UnsuppliedFieldsAreZero ==
    pc = "parsed" =>
        LET n == FieldsIn(input)
        IN  /\ message.sliceID = 0
            /\ (n < 2 => message.typeID = 0)
            /\ (n < 3 => message.commandType = 0)
            /\ \A k \in 1..DATA_SLOTS : (n < k + 3 => message.data[k] = ZeroFloat)
            /\ (n < 10 => message.errorFlags = 0)

\* C3: when the transport delivers fewer than 28 bytes, decode is handed exactly
\* the number of bytes collected, fails, and the handler reports the failure with
\* the response left as it was; a decoded response is reported only after 28
\* bytes were collected.
C3_ShortReadFailsDecode ==
    (RequestPath /\ pc = "returned") =>
        /\ (Delivered < 28 =>
                /\ index = Delivered
                /\ calls.decodeLen = Delivered
                /\ report = "decode_failed"
                /\ response \in {GarbageMessage(g) : g \in GarbageBytes})
        /\ (report = "decoded" => index = 28 /\ calls.read = 28)

\* 27 bytes were delivered and collected: the decode failed
C3_Witness ==
    /\ pc = "returned"
    /\ calls.read = 27
    /\ wire = <<>>
    /\ calls.decodeLen = 27
    /\ report = "decode_failed"

\* C4: Decode(Encode(m), 28) succeeds and gives back m field for field, the
\* floats bit for bit, and Encode(m) is 28 bytes long.
C4_RoundTrip ==
    /\ (pc \in {"decode", "done"} => Len(responseBuffer) = 28)
    /\ (pc = "done" => report = "decoded" /\ response = message)

\* a message with a NaN and non-zero bytes made the round trip
C4_Witness ==
    /\ pc = "done"
    /\ message.sliceID = 129
    /\ message.errorFlags = 255
    /\ message.data[2] = Float(1, 255, 8388607)
    /\ message.data[1] = Float(0, 133, 1441792)
    /\ response = message

\* C5: a send whose transport write failed is never reported as sent.
C5_WriteFailureSurfaced ==
    (pc = "returned" /\ writeOk = "nack") => report # "sent"

\* C6: a request issues exactly one read request, for exactly 28 bytes, and
\* decodes exactly once, after a short read or a failed decode too.
C6_OneRequestOneDecode ==
    RequestPath =>
        /\ Len(bus) = 1
        /\ bus[1].op = "request"
        /\ bus[1].len = 28
        /\ calls.decode = (IF pc = "returned" THEN 1 ELSE 0)

\* a short read, a failed decode, and still one request and one decode
C6_Witness ==
    /\ pc = "returned"
    /\ startsWith(input, RequestPrefix)
    /\ index = 5
    /\ report = "decode_failed"
    /\ Len(bus) = 1
    /\ calls.decode = 1

\* C7: for a line that is not a request line, a successful parse is followed by
\* exactly one bus write, to the parsed address and carrying the parsed Message;
\* a failed parse by no bus transaction; either way the handler returns and the
\* loop takes the next line.
C7_OneSendPerParsedLine ==
    (pc = "returned" /\ ~startsWith(input, RequestPrefix)) =>
        /\ calls.parse = 1
        /\ IF parseSuccess
           THEN bus = <<[op |-> "write", addr |-> targetAddress,
                         bytes |-> encodeMessage(message)]>>
           ELSE bus = <<>>
        /\ ENABLED Return

\* the line 8,8,8,8 was parsed and written once to address 8
C7_Witness ==
    /\ pc = "returned"
    /\ input = Join([i \in 1..4 |-> <<"8">>])
    /\ parseSuccess
    /\ Len(bus) = 1
    /\ bus[1].op = "write"
    /\ bus[1].addr = 8
    /\ bus[1].bytes[2] = 8

\* C8: a line that begins with request= is handled as a read-only request: the
\* parser is not called, no Message is built and nothing is written to the bus,
\* also when commas or a malformed address follow.
C8_RequestLineIsReadOnly ==
    startsWith(input, RequestPrefix) =>
        /\ calls.parse = 0
        /\ message = NoMessage
        /\ \A i \in 1..Len(bus) : bus[i].op # "write"
        /\ report \notin {"sent", "parse_failed"}

\* request=8,1,1,75 was handled to its end as a request
C8_Witness ==
    /\ pc = "returned"
    /\ input = RequestPrefix \o <<"8", ",", "1", ",", "1", ",", "7", "5">>
    /\ CommaCount(input) = 3
    /\ bus[1].op = "request"
    /\ calls.decode = 1

\* C9: for every v in 0..255 the request line with v in decimal and the one
\* with v in 0x/0X hexadecimal both issue the read request to address v.
C9_DecimalAndHexAgree ==
    (pc \in {"collect", "returned"} /\ typed.kind \in {"dec", "hex"}) =>
        /\ targetAddress = typed.value
        /\ Len(bus) = 1
        /\ bus[1].op = "request"
        /\ bus[1].addr = typed.value

\* request=0X1F was issued to address 31
C9_Witness ==
    /\ pc = "collect"
    /\ typed = [kind |-> "hex", value |-> 31]
    /\ input = RequestPrefix \o <<"0", "X", "1", "F">>
    /\ bus[1].addr = 31

\* C10: the collection loop reads at most 28 bytes, a byte only while the
\* transport has one, never counts past the 28-byte buffer, and the request
\* always ends with a decoded or a failed outcome, whatever the peripheral
\* supplies.
C10_RequestRunsToCompletion ==
    /\ [](index \in 0..28 /\ calls.read = index)
    /\ [][calls'.read > calls.read => Len(wire) > 0 /\ index < 28]_vars
    /\ (pc = "collect") ~> (pc = "returned" /\ report \in {"decoded", "decode_failed"})

\* 30 bytes were supplied: 28 were read, 2 left, and the request ended
C10_Witness ==
    /\ pc = "returned"
    /\ startsWith(input, RequestPrefix)
    /\ index = 28
    /\ Len(wire) = 2
    /\ report = "decoded"

====
